---- MODULE Spec2Model ----
(***************************************************************************)
(* Model of the Foxy withdraw step (Withdraw.tsx): the decision flow       *)
(* handleContinue with its two gas-estimate helpers, and the form helpers  *)
(* handlePercentClick, validateCryptoAmount and validateFiatAmount.        *)
(*                                                                         *)
(* A BigNumber is modelled as a record [nan, m, e] standing for m / 10^e;  *)
(* nan = TRUE is BigNumber's NaN (the value of an unparseable or missing   *)
(* string).  A decimal string is modelled by the digits it is written      *)
(* with, so "1.0" is [m |-> 10, e |-> 1] and "1" is [m |-> 1, e |-> 0].    *)
(***************************************************************************)
EXTENDS Integers, Sequences, FiniteSets, TLC

(* ---------------------------- bounds ----------------------------------- *)
MaxFlows == 2        \* handleContinue invocations per wizard instance
MaxPrecision == 1    \* asset.precision ranges over 0..MaxPrecision
MaxRaw == 2          \* a raw allowance ranges over 0..MaxRaw
MaxAmount == 5       \* digits of a submitted amount range over 0..MaxAmount
MaxDecimals == 1     \* decimal places of a submitted amount
MaxGas == 2          \* gas limit and gas price range over 0..MaxGas
MaxBalance == 2      \* the raw portfolio balance ranges over 0..MaxBalance
MaxPrice == 1        \* digits of the market price range over 0..MaxPrice
MaxValue == 2        \* digits of a typed amount range over -1..MaxValue

(* ------------------------ BigNumber arithmetic ------------------------- *)
RECURSIVE Pow10(_)
Pow10(n) == IF n = 0 THEN 1 ELSE 10 * Pow10(n - 1)

Abs(i) == IF i < 0 THEN -i ELSE i
Sign(i) == IF i < 0 THEN -1 ELSE 1
Max(a, b) == IF a >= b THEN a ELSE b

NaN == [nan |-> TRUE, m |-> 0, e |-> 0]
Dec(m, e) == [nan |-> FALSE, m |-> m, e |-> e]

\* BigNumber keeps a coefficient without trailing zeros.
RECURSIVE Normalize(_)
Normalize(x) ==
  IF x.nan THEN NaN
  ELSE IF x.m = 0 THEN Dec(0, 0)
  ELSE IF x.e > 0 /\ x.m % 10 = 0 THEN Normalize(Dec(x.m \div 10, x.e - 1))
  ELSE x

\* new BigNumber(n): parses a string or a number; NaN when it does not parse.
bn(n) == Normalize(n)

isFinite(x) == ~x.nan

\* lib/bignumber bnOrZero: the BigNumber of n, or 0 when that is not finite.
bnOrZero(n) == IF isFinite(bn(n)) THEN bn(n) ELSE Dec(0, 0)

\* Comparison of two numbers on a common scale; a comparison with NaN is false.
Scaled(x, e) == x.m * Pow10(e - x.e)
gt(x, y) ==
  /\ ~bn(x).nan /\ ~bn(y).nan
  /\ Scaled(x, Max(x.e, y.e)) > Scaled(y, Max(x.e, y.e))
gte(x, y) ==
  /\ ~bn(x).nan /\ ~bn(y).nan
  /\ Scaled(x, Max(x.e, y.e)) >= Scaled(y, Max(x.e, y.e))
isEqualTo(x, y) ==
  /\ ~bn(x).nan /\ ~bn(y).nan
  /\ Scaled(x, Max(x.e, y.e)) = Scaled(y, Max(x.e, y.e))

times(x, y) ==
  IF bn(x).nan \/ bn(y).nan THEN NaN
  ELSE Normalize(Dec(bn(x).m * bn(y).m, bn(x).e + bn(y).e))

\* Rounding with BigNumber's default ROUNDING_MODE, ROUND_HALF_UP (away from
\* zero on a tie).
RoundHalfUp(x, dp) ==
  IF x.nan THEN NaN
  ELSE IF x.e <= dp THEN x
  ELSE Normalize(Dec(Sign(x.m) * ((Abs(x.m) + 5 * Pow10(x.e - dp - 1))
                                    \div Pow10(x.e - dp)), dp))

\* x.dp(dp) without a rounding mode.
RoundDown_Default(x, dp) == RoundHalfUp(x, dp)

\* x.dp(dp, BigNumber.ROUND_DOWN): truncation toward zero.
RoundDown(x, dp) ==
  IF x.nan THEN NaN
  ELSE IF x.e <= dp THEN x
  ELSE Normalize(Dec(Sign(x.m) * (Abs(x.m) \div Pow10(x.e - dp)), dp))

\* BigNumber's default DECIMAL_PLACES, the precision of a division.
DECIMAL_PLACES == 20

\* x.div(`1e+${p}`): a shift of the decimal point, rounded to DECIMAL_PLACES.
divPow10(x, p) ==
  IF bn(x).nan THEN NaN
  ELSE RoundHalfUp(Normalize(Dec(bn(x).m, bn(x).e + p)), DECIMAL_PLACES)

\* x.times(`1e+${p}`)
timesPow10(x, p) ==
  IF bn(x).nan THEN NaN
  ELSE IF bn(x).e >= p THEN Normalize(Dec(bn(x).m, bn(x).e - p))
  ELSE Dec(bn(x).m * Pow10(p - bn(x).e), 0)

\* x.toFixed(0): the integer nearest to x, written in plain digits.
toFixed0(x) == IF x.nan THEN "NaN" ELSE ToString(RoundHalfUp(x, 0).m)

\* An integer held in a string or a number.
Int2Dec(i) == Dec(i, 0)

(* ------------------------------ state ---------------------------------- *)
Flows == 1..MaxFlows

WithdrawType == {"DELAYED", "INSTANT"}

VARIABLES
  userAddress,    \* state.userAddress is present
  api,            \* the foxy api object is present
  rewardId,       \* query.rewardId is present
  precision,      \* asset.precision
  loading,        \* state.loading
  step,           \* the wizard step, changed by onNext
  withdraw,       \* state.withdraw, written by SET_WITHDRAW
  approve,        \* state.approve, written by SET_APPROVE
  pc,             \* per invocation: where handleContinue is suspended
  formValues,     \* per invocation: the argument of handleContinue
  allowanceCall,  \* per invocation: the promise of api.allowance
  gasLimitCall,   \* per invocation: the promise of api.estimate*Gas
  gasPriceCall,   \* per invocation: the promise of api.getGasPrice
  effects,        \* per invocation: its dispatches, ChainApi calls, onNext
                  \* calls, toasts and logged errors, in program order
  outcome         \* per invocation: how the promise of handleContinue settled

flowVars == <<userAddress, api, rewardId, precision, loading, step, withdraw,
              approve, pc, formValues, allowanceCall, gasLimitCall,
              gasPriceCall, effects, outcome>>

VARIABLES
  balance,        \* selectPortfolioCryptoBalanceByAssetId: raw units, or NaN
                  \* when the portfolio has no balance for the asset
  price,          \* marketData.price, or NaN when there is no market data
  fields,         \* the form's cryptoAmount and fiatAmount fields
  validation,     \* the result of the validate rule of each field
  lastOp          \* the operation last applied to the form, and its argument

formVars == <<balance, price, fields, validation, lastOp>>

\* A promise of a ChainApi call.
NotCalled == [st |-> "none", v |-> 0, err |-> "none"]
Pending == [st |-> "pending", v |-> 0, err |-> "none"]
Resolved(v) == [st |-> "resolved", v |-> v, err |-> "none"]
Rejected(err) == [st |-> "rejected", v |-> 0, err |-> err]

\* The errors a ChainApi call rejects with: an Error whose message contains
\* 'Not enough funds in reserve', or any other error.
ReserveError == "Not enough funds in reserve"
GenericError == "generic"

\* The amounts a form can be submitted with.
AmountStrings == {Dec(m, e) : m \in 0..MaxAmount, e \in 0..MaxDecimals}
FormValues == [cryptoAmount : AmountStrings, withdrawType : WithdrawType]

NoFormValues == [cryptoAmount |-> NaN, withdrawType |-> ""]

\* The effects of an invocation.
Dispatch(type, payload) == [op |-> "dispatch", name |-> type, arg |-> payload]
Call(method, arg) == [op |-> "call", name |-> method, arg |-> arg]
OnNext(s) == [op |-> "onNext", name |-> s, arg |-> ""]
Toast(description) == [op |-> "toast", name |-> description, arg |-> "error"]
LogError(fn, err) == [op |-> "log", name |-> fn, arg |-> err]

\* The reducer cases of WithdrawContext: a payload is merged into its slice.
SET_WITHDRAW(w, payload) ==
  [k \in DOMAIN w |-> IF k \in DOMAIN payload THEN payload[k] ELSE w[k]]
SET_APPROVE(a, payload) ==
  [k \in DOMAIN a |-> IF k \in DOMAIN payload THEN payload[k] ELSE a[k]]

FlowInit ==
  /\ userAddress \in BOOLEAN
  /\ api \in BOOLEAN
  /\ rewardId = TRUE
  /\ precision \in 0..MaxPrecision
  /\ loading = FALSE
  /\ step = "Info"
  /\ withdraw = [cryptoAmount |-> NaN, withdrawType |-> "", estimatedGasCrypto |-> ""]
  /\ approve = [estimatedGasCrypto |-> ""]
  /\ pc = [f \in Flows |-> "idle"]
  /\ formValues = [f \in Flows |-> NoFormValues]
  /\ allowanceCall = [f \in Flows |-> NotCalled]
  /\ gasLimitCall = [f \in Flows |-> NotCalled]
  /\ gasPriceCall = [f \in Flows |-> NotCalled]
  /\ effects = [f \in Flows |-> <<>>]
  /\ outcome = [f \in Flows |-> "none"]

(* ---------------------------- handleContinue --------------------------- *)
\* A guard written with && in place of ||.
PreconditionsMet_And == userAddress \/ api

\* `if (!state.userAddress || !api) return`
PreconditionsMet == userAddress /\ api

\* `if (!state.userAddress || !rewardId || !api) return` of both estimate helpers
EstimatePreconditionsMet == userAddress /\ rewardId /\ api

\* The comparison written with gt in place of gte.
AllowanceSufficient_gt(raw, cryptoAmount) ==
  gt(bnOrZero(divPow10(bn(Int2Dec(raw)), precision)), cryptoAmount)

\* The raw allowance compared without the division by 10^precision.
AllowanceSufficient_Raw(raw, cryptoAmount) ==
  gte(bnOrZero(bn(Int2Dec(raw))), cryptoAmount)

\* bnOrZero(bn(_allowance).div(`1e+${asset.precision}`)).gte(formValues.cryptoAmount)
AllowanceSufficient(raw, cryptoAmount) ==
  gte(bnOrZero(divPow10(bn(Int2Dec(raw)), precision)), cryptoAmount)

\* bnOrZero(bn(withdraw.cryptoAmount).times(`1e+${asset.precision}`)).decimalPlaces(0)
AmountDesired(cryptoAmount) ==
  RoundHalfUp(bnOrZero(timesPow10(bn(cryptoAmount), precision)), 0)

\* The fee of a zero product returned as a falsy value.
EstimatedGasCrypto_ZeroFalsy(gasLimit, gasPrice) ==
  LET fee == toFixed0(bnOrZero(times(bn(Int2Dec(gasPrice)), Int2Dec(gasLimit))))
  IN  IF fee = "0" THEN "" ELSE fee

\* bnOrZero(bn(gasPrice).times(gasLimit)).toFixed(0)
EstimatedGasCrypto(gasLimit, gasPrice) ==
  toFixed0(bnOrZero(times(bn(Int2Dec(gasPrice)), Int2Dec(gasLimit))))

\* The try of handleContinue opened after the allowance query.
TryBlock_AfterAllowance(fn) ==
  CASE fn = "handleContinue" -> {"getWithdrawGasEstimate", "getApproveGasEstimate"}
    [] fn = "getWithdrawGasEstimate" -> {"estimateWithdrawGas", "getGasPrice"}
    [] fn = "getApproveGasEstimate" -> {"estimateApproveGas", "getGasPrice"}

\* The awaits that sit inside the try block of each function.
TryBlock(fn) ==
  CASE fn = "handleContinue" ->
         {"allowance", "getWithdrawGasEstimate", "getApproveGasEstimate"}
    [] fn = "getWithdrawGasEstimate" -> {"estimateWithdrawGas", "getGasPrice"}
    [] fn = "getApproveGasEstimate" -> {"estimateApproveGas", "getGasPrice"}

\* The description of the toast in the catch block of each function.
CatchDescription(fn, err) ==
  CASE fn = "handleContinue" -> "common.somethingWentWrongBody"
    [] fn = "getWithdrawGasEstimate" ->
         IF err = ReserveError THEN "defi.notEnoughFundsInReserve"
         ELSE "common.somethingWentWrong"
    [] fn = "getApproveGasEstimate" -> "common.somethingWentWrongBody"

\* The fn field logged by the catch block of each function.
CatchLogFn(fn) ==
  CASE fn = "handleContinue" -> "handleContinue"
    [] fn = "getWithdrawGasEstimate" -> "getWithdrawGasEstimate"
    [] fn = "getApproveGasEstimate" -> "getApproveEstimate"

Helper(f) ==
  IF pc[f] = "withdrawEstimate" THEN "getWithdrawGasEstimate"
  ELSE "getApproveGasEstimate"

Estimator(f) ==
  IF pc[f] = "withdrawEstimate" THEN "estimateWithdrawGas" ELSE "estimateApproveGas"

Estimating(f) == pc[f] \in {"withdrawEstimate", "approveEstimate"}

\* The i-th invocation of the handler is the flow numbered i.
NextInvocation(f) == pc[f] = "idle" /\ \A g \in Flows : g < f => pc[g] # "idle"

\* handleContinue without its SET_LOADING dispatch.
HandleContinue_NoLoading(f, fv) ==
  /\ NextInvocation(f)
  /\ formValues' = [formValues EXCEPT ![f] = fv]
  /\ IF ~PreconditionsMet
     THEN /\ pc' = [pc EXCEPT ![f] = "done"]
          /\ outcome' = [outcome EXCEPT ![f] = "fulfilled"]
          /\ UNCHANGED <<withdraw, loading, allowanceCall, effects>>
     ELSE /\ withdraw' = SET_WITHDRAW(withdraw, fv)
          /\ UNCHANGED loading
          /\ allowanceCall' = [allowanceCall EXCEPT ![f] = Pending]
          /\ effects' = [effects EXCEPT ![f] =
                           @ \o <<Dispatch("SET_WITHDRAW", fv),
                                  Call("allowance", "")>>]
          /\ pc' = [pc EXCEPT ![f] = "allowance"]
          /\ UNCHANGED outcome
  /\ UNCHANGED formVars
  /\ UNCHANGED <<userAddress, api, rewardId, precision, step, approve,
                 gasLimitCall, gasPriceCall>>

\* handleContinue returning at once while loading is set.
HandleContinue_Guarded(f, fv) ==
  /\ NextInvocation(f)
  /\ formValues' = [formValues EXCEPT ![f] = fv]
  /\ IF ~PreconditionsMet \/ loading
     THEN /\ pc' = [pc EXCEPT ![f] = "done"]
          /\ outcome' = [outcome EXCEPT ![f] = "fulfilled"]
          /\ UNCHANGED <<withdraw, loading, allowanceCall, effects>>
     ELSE /\ withdraw' = SET_WITHDRAW(withdraw, fv)
          /\ loading' = TRUE
          /\ allowanceCall' = [allowanceCall EXCEPT ![f] = Pending]
          /\ effects' = [effects EXCEPT ![f] =
                           @ \o <<Dispatch("SET_WITHDRAW", fv),
                                  Dispatch("SET_LOADING", TRUE),
                                  Call("allowance", "")>>]
          /\ pc' = [pc EXCEPT ![f] = "allowance"]
          /\ UNCHANGED outcome
  /\ UNCHANGED formVars
  /\ UNCHANGED <<userAddress, api, rewardId, precision, step, approve,
                 gasLimitCall, gasPriceCall>>

\* onContinue={handleContinue}: the form is submitted with the values `fv`.
HandleContinue(f, fv) ==
  /\ NextInvocation(f)
  /\ formValues' = [formValues EXCEPT ![f] = fv]
  /\ IF ~PreconditionsMet
     THEN /\ pc' = [pc EXCEPT ![f] = "done"]
          /\ outcome' = [outcome EXCEPT ![f] = "fulfilled"]
          /\ UNCHANGED <<withdraw, loading, allowanceCall, effects>>
     ELSE /\ withdraw' = SET_WITHDRAW(withdraw, fv)
          /\ loading' = TRUE
          /\ allowanceCall' = [allowanceCall EXCEPT ![f] = Pending]
          /\ effects' = [effects EXCEPT ![f] =
                           @ \o <<Dispatch("SET_WITHDRAW", fv),
                                  Dispatch("SET_LOADING", TRUE),
                                  Call("allowance", "")>>]
          /\ pc' = [pc EXCEPT ![f] = "allowance"]
          /\ UNCHANGED outcome
  /\ UNCHANGED formVars
  /\ UNCHANGED <<userAddress, api, rewardId, precision, step, approve,
                 gasLimitCall, gasPriceCall>>

\* The catch block of handleContinue, or the rejection of its promise when
\* the failing await `site` is outside the try block.
ThrowInHandleContinue(f, site, err) ==
  IF site \in TryBlock("handleContinue")
  THEN /\ loading' = FALSE
       /\ effects' = [effects EXCEPT ![f] =
                        @ \o <<LogError(CatchLogFn("handleContinue"), err),
                                  Dispatch("SET_LOADING", FALSE),
                                  Toast(CatchDescription("handleContinue", err))>>]
       /\ outcome' = [outcome EXCEPT ![f] = "fulfilled"]
  ELSE /\ outcome' = [outcome EXCEPT ![f] = "rejected"]
       /\ UNCHANGED <<effects, loading>>

\* api.allowance resolves with `raw`: the branch on the allowance, up to the
\* Promise.all of the estimate helper it calls.
AllowanceResolve(f, raw) ==
  /\ pc[f] = "allowance"
  /\ allowanceCall' = [allowanceCall EXCEPT ![f] = Resolved(raw)]
  /\ IF ~EstimatePreconditionsMet
     THEN \* the helper returns undefined: `if (!estimatedGasCrypto) return`
          /\ pc' = [pc EXCEPT ![f] = "done"]
          /\ outcome' = [outcome EXCEPT ![f] = "fulfilled"]
          /\ UNCHANGED <<gasLimitCall, gasPriceCall, effects>>
     ELSE /\ gasLimitCall' = [gasLimitCall EXCEPT ![f] = Pending]
          /\ gasPriceCall' = [gasPriceCall EXCEPT ![f] = Pending]
          /\ UNCHANGED outcome
          /\ IF AllowanceSufficient(raw, formValues[f].cryptoAmount)
             THEN /\ pc' = [pc EXCEPT ![f] = "withdrawEstimate"]
                  /\ effects' = [effects EXCEPT ![f] =
                       @ \o <<Call("estimateWithdrawGas",
                                   [amountDesired |->
                                      AmountDesired(formValues[f].cryptoAmount),
                                    type |-> formValues[f].withdrawType]),
                              Call("getGasPrice", "")>>]
             ELSE /\ pc' = [pc EXCEPT ![f] = "approveEstimate"]
                  /\ effects' = [effects EXCEPT ![f] =
                       @ \o <<Call("estimateApproveGas", ""),
                              Call("getGasPrice", "")>>]
  /\ UNCHANGED formVars
  /\ UNCHANGED <<userAddress, api, rewardId, precision, loading, step,
                 withdraw, approve, formValues>>

\* A rejected allowance query issued once more before giving up.
AllowanceReject_Retry(f, err) ==
  /\ pc[f] = "allowance"
  /\ IF Len(effects[f]) < 4
     THEN /\ allowanceCall' = [allowanceCall EXCEPT ![f] = Pending]
          /\ effects' = [effects EXCEPT ![f] = @ \o <<Call("allowance", "")>>]
          /\ UNCHANGED <<pc, loading, outcome>>
     ELSE /\ allowanceCall' = [allowanceCall EXCEPT ![f] = Rejected(err)]
          /\ pc' = [pc EXCEPT ![f] = "done"]
          /\ ThrowInHandleContinue(f, "allowance", err)
  /\ UNCHANGED formVars
  /\ UNCHANGED <<userAddress, api, rewardId, precision, step, withdraw,
                 approve, formValues, gasLimitCall, gasPriceCall>>

\* api.allowance rejects.
AllowanceReject(f, err) ==
  /\ pc[f] = "allowance"
  /\ allowanceCall' = [allowanceCall EXCEPT ![f] = Rejected(err)]
  /\ pc' = [pc EXCEPT ![f] = "done"]
  /\ ThrowInHandleContinue(f, "allowance", err)
  /\ UNCHANGED formVars
  /\ UNCHANGED <<userAddress, api, rewardId, precision, step, withdraw,
                 approve, formValues, gasLimitCall, gasPriceCall>>

\* The step changed before the fee is dispatched.
EstimateResolved_NextFirst(f, gasLimit, gasPrice) ==
  LET estimatedGasCrypto == EstimatedGasCrypto(gasLimit, gasPrice) IN
  /\ pc' = [pc EXCEPT ![f] = "done"]
  /\ outcome' = [outcome EXCEPT ![f] = "fulfilled"]
  /\ IF estimatedGasCrypto = ""
     THEN UNCHANGED <<withdraw, approve, step, loading, effects>>
     ELSE /\ IF pc[f] = "withdrawEstimate"
             THEN /\ withdraw' = SET_WITHDRAW(withdraw,
                                   [estimatedGasCrypto |-> estimatedGasCrypto])
                  /\ step' = "Confirm"
                  /\ effects' = [effects EXCEPT ![f] =
                       @ \o <<OnNext("Confirm"),
                              Dispatch("SET_WITHDRAW",
                                [estimatedGasCrypto |-> estimatedGasCrypto]),
                              Dispatch("SET_LOADING", FALSE)>>]
                  /\ UNCHANGED approve
             ELSE /\ approve' = SET_APPROVE(approve,
                                  [estimatedGasCrypto |-> estimatedGasCrypto])
                  /\ step' = "Approve"
                  /\ effects' = [effects EXCEPT ![f] =
                       @ \o <<OnNext("Approve"),
                              Dispatch("SET_APPROVE",
                                [estimatedGasCrypto |-> estimatedGasCrypto]),
                              Dispatch("SET_LOADING", FALSE)>>]
                  /\ UNCHANGED withdraw
          /\ loading' = FALSE

\* Promise.all has resolved with [gasLimit, gasPrice]: the helper returns the
\* fee and handleContinue runs to its end.
EstimateResolved(f, gasLimit, gasPrice) ==
  LET estimatedGasCrypto == EstimatedGasCrypto(gasLimit, gasPrice) IN
  /\ pc' = [pc EXCEPT ![f] = "done"]
  /\ outcome' = [outcome EXCEPT ![f] = "fulfilled"]
  /\ IF estimatedGasCrypto = ""
     THEN UNCHANGED <<withdraw, approve, step, loading, effects>>
     ELSE /\ IF pc[f] = "withdrawEstimate"
             THEN /\ withdraw' = SET_WITHDRAW(withdraw,
                                   [estimatedGasCrypto |-> estimatedGasCrypto])
                  /\ step' = "Confirm"
                  /\ effects' = [effects EXCEPT ![f] =
                       @ \o <<Dispatch("SET_WITHDRAW",
                                [estimatedGasCrypto |-> estimatedGasCrypto]),
                              OnNext("Confirm"),
                              Dispatch("SET_LOADING", FALSE)>>]
                  /\ UNCHANGED approve
             ELSE /\ approve' = SET_APPROVE(approve,
                                  [estimatedGasCrypto |-> estimatedGasCrypto])
                  /\ step' = "Approve"
                  /\ effects' = [effects EXCEPT ![f] =
                       @ \o <<Dispatch("SET_APPROVE",
                                [estimatedGasCrypto |-> estimatedGasCrypto]),
                              OnNext("Approve"),
                              Dispatch("SET_LOADING", FALSE)>>]
                  /\ UNCHANGED withdraw
          /\ loading' = FALSE

\* The payload written at entry taken back when the estimate fails.
EstimateRejected_Rollback(f, site, err) ==
  /\ pc' = [pc EXCEPT ![f] = "done"]
  /\ withdraw' = [withdraw EXCEPT !.cryptoAmount = NaN, !.withdrawType = ""]
  /\ UNCHANGED <<approve, step>>
  /\ IF site \in TryBlock(Helper(f))
     THEN /\ effects' = [effects EXCEPT ![f] =
                           @ \o <<LogError(CatchLogFn(Helper(f)), err),
                                  Toast(CatchDescription(Helper(f), err))>>]
          /\ outcome' = [outcome EXCEPT ![f] = "fulfilled"]
          /\ UNCHANGED loading
     ELSE ThrowInHandleContinue(f, Helper(f), err)

\* Promise.all has rejected with `err`, thrown by the await of `site`.
EstimateRejected(f, site, err) ==
  /\ pc' = [pc EXCEPT ![f] = "done"]
  /\ UNCHANGED <<withdraw, approve, step>>
  /\ IF site \in TryBlock(Helper(f))
     THEN \* caught in the helper, which returns undefined:
          \* `if (!estimatedGasCrypto) return`
          /\ effects' = [effects EXCEPT ![f] =
                           @ \o <<LogError(CatchLogFn(Helper(f)), err),
                                  Toast(CatchDescription(Helper(f), err))>>]
          /\ outcome' = [outcome EXCEPT ![f] = "fulfilled"]
          /\ UNCHANGED loading
     ELSE ThrowInHandleContinue(f, Helper(f), err)

\* api.estimateWithdrawGas or api.estimateApproveGas resolves with `gasLimit`.
GasLimitResolve(f, gasLimit) ==
  /\ gasLimitCall[f].st = "pending"
  /\ gasLimitCall' = [gasLimitCall EXCEPT ![f] = Resolved(gasLimit)]
  /\ IF Estimating(f) /\ gasPriceCall[f].st = "resolved"
     THEN EstimateResolved(f, gasLimit, gasPriceCall[f].v)
     ELSE UNCHANGED <<pc, outcome, withdraw, approve, step, loading, effects>>
  /\ UNCHANGED formVars
  /\ UNCHANGED <<userAddress, api, rewardId, precision, formValues,
                 allowanceCall, gasPriceCall>>

\* A rejection that arrives after Promise.all has settled shown as well.
GasLimitReject_LateToast(f, err) ==
  /\ gasLimitCall[f].st = "pending"
  /\ err = ReserveError =>
       \E i \in DOMAIN effects[f] : effects[f][i].name = "estimateWithdrawGas"
  /\ gasLimitCall' = [gasLimitCall EXCEPT ![f] = Rejected(err)]
  /\ IF Estimating(f)
     THEN EstimateRejected(f, Estimator(f), err)
     ELSE /\ effects' = [effects EXCEPT ![f] =
                           @ \o <<Toast("common.somethingWentWrong")>>]
          /\ UNCHANGED <<pc, outcome, withdraw, approve, step, loading>>
  /\ UNCHANGED formVars
  /\ UNCHANGED <<userAddress, api, rewardId, precision, formValues,
                 allowanceCall, gasPriceCall>>

\* api.estimateWithdrawGas or api.estimateApproveGas rejects with `err`; the
\* reserve error is one of estimateWithdrawGas.
GasLimitReject(f, err) ==
  /\ gasLimitCall[f].st = "pending"
  /\ err = ReserveError =>
       \E i \in DOMAIN effects[f] : effects[f][i].name = "estimateWithdrawGas"
  /\ gasLimitCall' = [gasLimitCall EXCEPT ![f] = Rejected(err)]
  /\ IF Estimating(f)
     THEN EstimateRejected(f, Estimator(f), err)
     ELSE UNCHANGED <<pc, outcome, withdraw, approve, step, loading, effects>>
  /\ UNCHANGED formVars
  /\ UNCHANGED <<userAddress, api, rewardId, precision, formValues,
                 allowanceCall, gasPriceCall>>

\* api.getGasPrice resolves with `gasPrice`.
GasPriceResolve(f, gasPrice) ==
  /\ gasPriceCall[f].st = "pending"
  /\ gasPriceCall' = [gasPriceCall EXCEPT ![f] = Resolved(gasPrice)]
  /\ IF Estimating(f) /\ gasLimitCall[f].st = "resolved"
     THEN EstimateResolved(f, gasLimitCall[f].v, gasPrice)
     ELSE UNCHANGED <<pc, outcome, withdraw, approve, step, loading, effects>>
  /\ UNCHANGED formVars
  /\ UNCHANGED <<userAddress, api, rewardId, precision, formValues,
                 allowanceCall, gasLimitCall>>

\* A rejected gas price taken as 0 once the gas limit is known.
GasPriceReject_Fallback(f, err) ==
  /\ gasPriceCall[f].st = "pending"
  /\ gasPriceCall' = [gasPriceCall EXCEPT ![f] = Rejected(err)]
  /\ IF Estimating(f) /\ gasLimitCall[f].st = "resolved"
     THEN EstimateResolved(f, gasLimitCall[f].v, 0)
     ELSE UNCHANGED <<pc, outcome, withdraw, approve, step, loading, effects>>
  /\ UNCHANGED formVars
  /\ UNCHANGED <<userAddress, api, rewardId, precision, formValues,
                 allowanceCall, gasLimitCall>>

\* api.getGasPrice rejects with `err`.
GasPriceReject(f, err) ==
  /\ gasPriceCall[f].st = "pending"
  /\ gasPriceCall' = [gasPriceCall EXCEPT ![f] = Rejected(err)]
  /\ IF Estimating(f)
     THEN EstimateRejected(f, "getGasPrice", err)
     ELSE UNCHANGED <<pc, outcome, withdraw, approve, step, loading, effects>>
  /\ UNCHANGED formVars
  /\ UNCHANGED <<userAddress, api, rewardId, precision, formValues,
                 allowanceCall, gasLimitCall>>

(* ------------------------------- the form ------------------------------ *)
\* The value `true` returned by a validate rule.
True == "<true>"
Unvalidated == "<unvalidated>"

Zero == Dec(0, 0)

\* percentOptions={[0.25, 0.5, 0.75, 1]}
percentOptions == {Dec(25, 2), Dec(5, 1), Dec(75, 2), Dec(1, 0)}

\* x.toString(): the digits of x, without trailing zeros.
toString(x) == Normalize(x)

\* The raw balance taken as the available amount, the division left out.
cryptoAmountAvailable_Raw == bnOrZero(bn(balance))

\* bnOrZero(bn(balance).div(`1e+${asset?.precision}`))
cryptoAmountAvailable == bnOrZero(divPow10(bn(balance), precision))

\* The balance compared with gt in place of gte.
validateCryptoAmount_gt(value) ==
  LET crypto == bnOrZero(divPow10(bn(balance), precision))
      _value == bnOrZero(value)
      hasValidBalance == gt(crypto, Zero) /\ gt(_value, Zero) /\ gt(crypto, value)
  IN  IF isEqualTo(_value, Zero) THEN ""
      ELSE IF hasValidBalance THEN True ELSE "common.insufficientFunds"

validateCryptoAmount(value) ==
  LET crypto == bnOrZero(divPow10(bn(balance), precision))
      _value == bnOrZero(value)
      hasValidBalance == gt(crypto, Zero) /\ gt(_value, Zero) /\ gte(crypto, value)
  IN  IF isEqualTo(_value, Zero) THEN ""
      ELSE IF hasValidBalance THEN True ELSE "common.insufficientFunds"

\* The fiat value compared with the crypto balance, the price left out.
validateFiatAmount_NoPrice(value) ==
  LET crypto == bnOrZero(divPow10(bn(balance), precision))
      _value == bnOrZero(value)
      hasValidBalance == gt(crypto, Zero) /\ gt(_value, Zero) /\ gte(crypto, value)
  IN  IF isEqualTo(_value, Zero) THEN ""
      ELSE IF hasValidBalance THEN True ELSE "common.insufficientFunds"

validateFiatAmount(value) ==
  LET crypto == bnOrZero(divPow10(bn(balance), precision))
      fiat == times(crypto, bnOrZero(price))
      _value == bnOrZero(value)
      hasValidBalance == gt(fiat, Zero) /\ gt(_value, Zero) /\ gte(fiat, value)
  IN  IF isEqualTo(_value, Zero) THEN ""
      ELSE IF hasValidBalance THEN True ELSE "common.insufficientFunds"

\* The strings a user can type into an amount field.
TypedValues == {Dec(m, e) : m \in -1..MaxValue, e \in 0..MaxDecimals} \cup {NaN}

Prices == {Dec(m, e) : m \in 0..MaxPrice, e \in 0..MaxDecimals} \cup {NaN}

Balances == {Int2Dec(b) : b \in 0..MaxBalance} \cup {NaN}

FormIdle ==
  /\ fields = [cryptoAmount |-> NaN, fiatAmount |-> NaN]
  /\ validation = [cryptoAmount |-> Unvalidated, fiatAmount |-> Unvalidated]
  /\ lastOp = [op |-> "none", arg |-> NaN]

\* handlePercentClick: both setValue calls validate the field they set.
handlePercentClick(percent) ==
  LET cryptoAmount == RoundDown(times(bnOrZero(cryptoAmountAvailable), percent),
                                precision)
      fiatAmount == times(bnOrZero(cryptoAmount), price)
  IN  /\ fields' = [cryptoAmount |-> toString(cryptoAmount),
                    fiatAmount |-> toString(fiatAmount)]
      /\ validation' = [cryptoAmount |-> validateCryptoAmount(toString(cryptoAmount)),
                        fiatAmount |-> validateFiatAmount(toString(fiatAmount))]
      /\ lastOp' = [op |-> "handlePercentClick", arg |-> percent]
      /\ UNCHANGED <<balance, price>>
      /\ UNCHANGED flowVars

\* cryptoInputValidation: the crypto field changes to `value` (mode onChange).
ChangeCryptoAmount(value) ==
  /\ fields' = [fields EXCEPT !.cryptoAmount = value]
  /\ validation' = [validation EXCEPT !.cryptoAmount = validateCryptoAmount(value)]
  /\ lastOp' = [op |-> "validateCryptoAmount", arg |-> value]
  /\ UNCHANGED <<balance, price>>
  /\ UNCHANGED flowVars

\* fiatInputValidation: the fiat field changes to `value` (mode onChange).
ChangeFiatAmount(value) ==
  /\ fields' = [fields EXCEPT !.fiatAmount = value]
  /\ validation' = [validation EXCEPT !.fiatAmount = validateFiatAmount(value)]
  /\ lastOp' = [op |-> "validateFiatAmount", arg |-> value]
  /\ UNCHANGED <<balance, price>>
  /\ UNCHANGED flowVars

(* ---------------------------- specifications --------------------------- *)
vars == <<flowVars, formVars>>

\* The decision flow, the form playing no part in it: Spec lets up to MaxFlows
\* invocations of handleContinue interleave, SingleSpec runs one invocation
\* over the whole of each input range.
Init ==
  /\ FlowInit
  /\ balance = NaN
  /\ price = NaN
  /\ FormIdle

\* The inputs of interleaved invocations: the ends of each range.
EndAmounts == {Dec(m, e) : m \in {0, MaxAmount}, e \in {0, MaxDecimals}}
EndFormValues == [cryptoAmount : EndAmounts, withdrawType : WithdrawType]
EndRaws == {0, MaxRaw}
EndGas == {0, MaxGas}

Next ==
  \/ \E f \in Flows, fv \in EndFormValues : HandleContinue(f, fv)
  \/ \E f \in Flows, raw \in EndRaws : AllowanceResolve(f, raw)
  \/ \E f \in Flows : AllowanceReject(f, GenericError)
  \/ \E f \in Flows, gasLimit \in EndGas : GasLimitResolve(f, gasLimit)
  \/ \E f \in Flows, err \in {ReserveError, GenericError} : GasLimitReject(f, err)
  \/ \E f \in Flows, gasPrice \in EndGas : GasPriceResolve(f, gasPrice)
  \/ \E f \in Flows : GasPriceReject(f, GenericError)

Spec == Init /\ [][Next]_vars

SingleNext ==
  \/ \E fv \in FormValues : HandleContinue(1, fv)
  \/ \E raw \in 0..MaxRaw : AllowanceResolve(1, raw)
  \/ AllowanceReject(1, GenericError)
  \/ \E gasLimit \in 0..MaxGas : GasLimitResolve(1, gasLimit)
  \/ \E err \in {ReserveError, GenericError} : GasLimitReject(1, err)
  \/ \E gasPrice \in 0..MaxGas : GasPriceResolve(1, gasPrice)
  \/ GasPriceReject(1, GenericError)

SingleSpec == Init /\ [][SingleNext]_vars

\* isLoading={state.loading}: a host that takes a submission only while the
\* loading flag it is given is false.
HostSubmit(f, fv) ==
  /\ ~loading
  /\ HandleContinue(f, fv)

\* The values the host submits: no amount, or the largest one.
HostFormValues ==
  [cryptoAmount : {Dec(0, 0), Dec(MaxAmount, MaxDecimals)},
   withdrawType : WithdrawType]

HostNext ==
  \/ \E f \in Flows, fv \in HostFormValues : HostSubmit(f, fv)
  \/ \E f \in Flows, raw \in EndRaws : AllowanceResolve(f, raw)
  \/ \E f \in Flows : AllowanceReject(f, GenericError)
  \/ \E f \in Flows, gasLimit \in EndGas : GasLimitResolve(f, gasLimit)
  \/ \E f \in Flows, err \in {ReserveError, GenericError} : GasLimitReject(f, err)
  \/ \E f \in Flows, gasPrice \in EndGas : GasPriceResolve(f, gasPrice)
  \/ \E f \in Flows : GasPriceReject(f, GenericError)

HostSpec == Init /\ [][HostNext]_vars

\* The form: no submission is made.
FormInit ==
  /\ FlowInit
  /\ userAddress = TRUE
  /\ api = TRUE
  /\ balance \in Balances
  /\ price \in Prices
  /\ FormIdle

FormNext ==
  \/ \E percent \in percentOptions : handlePercentClick(percent)
  \/ \E value \in TypedValues : ChangeCryptoAmount(value)
  \/ \E value \in TypedValues : ChangeFiatAmount(value)

FormSpec == FormInit /\ [][FormNext]_vars

(* ------------------------------ properties ----------------------------- *)
\* The names of the effects of kind `op` of invocation f, in program order.
Names(f, op) ==
  LET IsOp(e) == e.op = op
      sel == SelectSeq(effects[f], IsOp)
  IN  [i \in 1..Len(sel) |-> sel[i].name]

OnNextCalls(f) == Names(f, "onNext")
Toasts(f) == Names(f, "toast")
Logs(f) == Names(f, "log")

\* Invocation f has dispatched an estimatedGasCrypto into a payload.
FeeDispatched(f) ==
  \E i \in DOMAIN effects[f] :
    /\ effects[f][i].op = "dispatch"
    /\ effects[f][i].name \in {"SET_WITHDRAW", "SET_APPROVE"}
    /\ "estimatedGasCrypto" \in DOMAIN effects[f][i].arg

EstimateSucceeded(f) ==
  gasLimitCall[f].st = "resolved" /\ gasPriceCall[f].st = "resolved"

FailedCall(f) ==
  \/ allowanceCall[f].st = "rejected"
  \/ gasLimitCall[f].st = "rejected"
  \/ gasPriceCall[f].st = "rejected"

\* raw / 10^precision >= cryptoAmount, on integers.
AllowanceCovers(f) ==
  allowanceCall[f].v * Pow10(formValues[f].cryptoAmount.e)
    >= formValues[f].cryptoAmount.m * Pow10(precision)

C2_LoadingSetAndCleared ==
  [][\A f \in Flows :
       /\ (pc[f] = "idle" /\ pc'[f] # "idle" /\ userAddress /\ api) => loading'
       /\ (pc[f] # "done" /\ pc'[f] = "done" /\ userAddress /\ api) => ~loading'
    ]_vars

\* C3: an invocation that ends with a failed ChainApi call has not called
\* onNext, leaves the wizard step as it was, and leaves the flow in the
\* idle-equivalent state (loading false).
C3_FailureLeavesStep ==
  [][\A f \in Flows :
       (pc[f] # "done" /\ pc'[f] = "done" /\ FailedCall(f)') =>
         /\ step' = step
         /\ OnNextCalls(f)' = <<>>
         /\ ~loading'
    ]_vars

\* The part of C3 about the step alone.
C3_NoStepChange ==
  \A f \in Flows : FailedCall(f) => OnNextCalls(f) = <<>>

\* C4: the gas-limit call and getGasPrice are started together; a fee is
\* dispatched and onNext called only when both have resolved; when either
\* has rejected, the invocation dispatches no fee and calls no onNext.
C4_EstimateAllOrNothing ==
  \A f \in Flows :
    /\ (gasLimitCall[f].st = "none") <=> (gasPriceCall[f].st = "none")
    /\ (FeeDispatched(f) \/ OnNextCalls(f) # <<>>) => EstimateSucceeded(f)
    /\ (gasLimitCall[f].st = "rejected" \/ gasPriceCall[f].st = "rejected") =>
         ~FeeDispatched(f) /\ OnNextCalls(f) = <<>>

\* The gas limit resolved and the gas price rejected: the invocation ended
\* without a fee.
C4_Witness ==
  \E f \in Flows :
    /\ gasLimitCall[f].st = "resolved" /\ gasLimitCall[f].v > 0
    /\ gasPriceCall[f].st = "rejected"
    /\ pc[f] = "done" /\ ~FeeDispatched(f)

\* C5: when estimateWithdrawGas has rejected with the reserve error, the
\* notification of that invocation is the reserve-specific one.
C5_ReserveDescription ==
  \A f \in Flows :
    gasLimitCall[f] = Rejected(ReserveError) =>
      Toasts(f) = <<"defi.notEnoughFundsInReserve">>

\* C6: handleContinue never rejects; an invocation in which a ChainApi call
\* failed has completed normally, logged an error and shown a notification.
C6_FailuresCaught ==
  \A f \in Flows :
    /\ outcome[f] # "rejected"
    /\ FailedCall(f) =>
         /\ pc[f] = "done" /\ outcome[f] = "fulfilled"
         /\ Len(Logs(f)) >= 1
         /\ Len(Toasts(f)) >= 1

\* An invocation whose allowance query failed has returned, with its toast.
C6_Witness ==
  \E f \in Flows :
    /\ allowanceCall[f].st = "rejected" /\ outcome[f] = "fulfilled"
    /\ Toasts(f) = <<"common.somethingWentWrongBody">>

\* C7: an invocation made without userAddress or without the api returns at
\* once and changes nothing: no payload, no loading, no ChainApi call, no
\* notification, no step.
C7_GuardNoOp ==
  [][\A f \in Flows :
       (pc[f] = "idle" /\ pc'[f] # "idle" /\ (~userAddress \/ ~api)) =>
         /\ pc'[f] = "done"
         /\ effects'[f] = <<>>
         /\ UNCHANGED <<withdraw, approve, loading, step, allowanceCall,
                        gasLimitCall, gasPriceCall>>
    ]_vars

\* An invocation returned on the guard, with a userAddress but no api.
C7_Witness ==
  /\ userAddress /\ ~api
  /\ pc[1] = "done" /\ formValues[1] \in FormValues

\* The raw balance as an integer (0 when the portfolio has none).
RawBalance == IF balance.nan THEN 0 ELSE balance.m
\* The digits of the price (0 when there is no market data).
PriceDigits == IF price.nan THEN 0 ELSE price.m

\* C8: for a balance B = raw / 10^precision (0 when the portfolio has none)
\* and a numeric value V,
\* validateCryptoAmount returns true iff 0 < V <= B, '' when V = 0, and
\* 'common.insufficientFunds' when V > B or V < 0.
C8_ValidateCrypto ==
  (validation.cryptoAmount # Unvalidated /\ ~fields.cryptoAmount.nan) =>
    LET V == fields.cryptoAmount
        VleB == V.m * Pow10(precision) <= RawBalance * Pow10(V.e)
    IN  /\ (validation.cryptoAmount = True) <=> (V.m > 0 /\ VleB)
        /\ V.m = 0 => validation.cryptoAmount = ""
        /\ (V.m < 0 \/ ~VleB) => validation.cryptoAmount = "common.insufficientFunds"

\* A value equal to a positive balance with decimals was found valid.
C8_Witness ==
  /\ lastOp.op = "validateCryptoAmount" /\ precision > 0
  /\ fields.cryptoAmount.m > 0 /\ ~balance.nan
  /\ fields.cryptoAmount.m * Pow10(precision)
       = RawBalance * Pow10(fields.cryptoAmount.e)
  /\ validation.cryptoAmount = True

\* C9: after handlePercentClick(percent) with a price, cryptoAmount c is
\* A * percent truncated to `precision` places (c has at most `precision`
\* places, c <= A * percent, A * percent - c < 10^-precision) and fiatAmount
\* is c * price.
C9_PercentTruncates ==
  (lastOp.op = "handlePercentClick" /\ ~price.nan) =>
    LET c == fields.cryptoAmount
        fiat == fields.fiatAmount
        pct == lastOp.arg
        \* A * percent = AP / 10^(precision + pct.e)
        AP == RawBalance * pct.m
    IN  /\ ~c.nan /\ ~fiat.nan
        /\ c.e <= precision
        /\ c.m * Pow10(precision + pct.e) <= AP * Pow10(c.e)
        /\ AP * Pow10(c.e) - c.m * Pow10(precision + pct.e) < Pow10(pct.e + c.e)
        /\ fiat.m * Pow10(c.e + price.e) = c.m * price.m * Pow10(fiat.e)

\* A click whose product had to be cut, to a non-zero amount.
C9_Witness ==
  /\ lastOp.op = "handlePercentClick" /\ ~price.nan /\ price.m > 0
  /\ fields.cryptoAmount.m > 0
  /\ fields.cryptoAmount.m * Pow10(precision + lastOp.arg.e)
       < RawBalance * lastOp.arg.m * Pow10(fields.cryptoAmount.e)

\* C10: with the ceiling F = (raw / 10^precision) * price (price 0 when
\* missing) and a numeric value V, validateFiatAmount returns true iff
\* F > 0 and 0 < V <= F, '' when V = 0, and 'common.insufficientFunds'
\* otherwise; a missing or zero price makes every positive V invalid.
C10_ValidateFiat ==
  (validation.fiatAmount # Unvalidated /\ ~fields.fiatAmount.nan) =>
    LET V == fields.fiatAmount
        \* F = FN / 10^(precision + price.e)
        FN == RawBalance * PriceDigits
        VleF == V.m * Pow10(precision + price.e) <= FN * Pow10(V.e)
    IN  /\ (validation.fiatAmount = True) <=> (FN > 0 /\ V.m > 0 /\ VleF)
        /\ V.m = 0 => validation.fiatAmount = ""
        /\ (V.m # 0 /\ ~(FN > 0 /\ V.m > 0 /\ VleF)) =>
             validation.fiatAmount = "common.insufficientFunds"
        /\ (PriceDigits = 0 /\ V.m > 0) =>
             validation.fiatAmount = "common.insufficientFunds"

\* A value equal to the ceiling was found valid, under a fractional price.
C10_Witness ==
  /\ lastOp.op = "validateFiatAmount" /\ ~price.nan /\ price.e > 0
  /\ ~balance.nan /\ fields.fiatAmount.m > 0
  /\ fields.fiatAmount.m * Pow10(precision + price.e)
       = RawBalance * PriceDigits * Pow10(fields.fiatAmount.e)
  /\ validation.fiatAmount = True

\* Invocation f has passed the guard and has not returned.
InFlight(f) == pc[f] \in {"allowance", "withdrawEstimate", "approveEstimate"}

\* C11: under a host that submits only while loading is false, at most one
\* invocation is in flight at any time, and loading is true from the entry
\* of an invocation for as long as it is in flight.
C11_OneFlowInFlight ==
  /\ \A f, g \in Flows : (InFlight(f) /\ InFlight(g)) => f = g
  /\ \A f \in Flows : InFlight(f) => loading

\* A second invocation in flight, submitted after the first one ended on
\* the Confirm step.
C11_Witness ==
  /\ pc[1] = "done" /\ OnNextCalls(1) = <<"Confirm">>
  /\ InFlight(2) /\ loading

\* The ChainApi calls of invocation f, in program order.
ApiCalls(f) == Names(f, "call")

\* C12: an invocation calls allowance at most once, then at most one of the
\* two estimators together with getGasPrice, each once: estimateWithdrawGas
\* only when the allowance covers the amount, estimateApproveGas only when
\* it does not; once an error has been handled, it issues no further call.
C12_NoRetries ==
  \A f \in Flows :
    /\ ApiCalls(f) \in {<<>>, <<"allowance">>,
                        <<"allowance", "estimateWithdrawGas", "getGasPrice">>,
                        <<"allowance", "estimateApproveGas", "getGasPrice">>}
    /\ Len(ApiCalls(f)) = 3 => allowanceCall[f].st = "resolved"
    /\ Len(ApiCalls(f)) = 3 =>
         (ApiCalls(f)[2] = "estimateWithdrawGas" <=> AllowanceCovers(f))
    /\ \A i, j \in DOMAIN effects[f] :
         (i < j /\ effects[f][i].op = "log") => effects[f][j].op # "call"

\* An invocation ended by a rejected estimateApproveGas, its getGasPrice
\* resolved afterwards.
C12_Witness ==
  /\ pc[1] = "done" /\ gasLimitCall[1].st = "rejected"
  /\ gasPriceCall[1].st = "resolved"
  /\ ApiCalls(1) = <<"allowance", "estimateApproveGas", "getGasPrice">>

\* C13: once an invocation has ended on a failed ChainApi call, the withdraw
\* payload still holds the cryptoAmount and withdrawType it was submitted
\* with, and neither the withdraw nor the approve payload holds a fee.
C13_PayloadKeptOnFailure ==
  (pc[1] = "done" /\ FailedCall(1)) =>
    /\ withdraw.cryptoAmount = formValues[1].cryptoAmount
    /\ withdraw.withdrawType = formValues[1].withdrawType
    /\ ~FeeDispatched(1)
    /\ withdraw.estimatedGasCrypto = ""
    /\ approve.estimatedGasCrypto = ""

\* An instant withdrawal of a non-zero amount whose gas price failed: the
\* payload holds the amount.
C13_Witness ==
  /\ pc[1] = "done" /\ gasPriceCall[1].st = "rejected"
  /\ formValues[1].cryptoAmount.m > 0 /\ formValues[1].withdrawType = "INSTANT"
  /\ withdraw.cryptoAmount = formValues[1].cryptoAmount
  /\ withdraw.withdrawType = "INSTANT"

\* C14: when both calls of the estimate have resolved with integers gasLimit
\* and gasPrice, the fee in the wizard state is the decimal string of
\* gasPrice * gasLimit, in the withdraw payload on the Confirm route and in
\* the approve payload on the Approve route, and the step has changed; a
\* product of 0 gives "0" and changes the step as well.
C14_FeeIsProduct ==
  (pc[1] = "done" /\ EstimateSucceeded(1)) =>
    LET fee == ToString(gasPriceCall[1].v * gasLimitCall[1].v)
    IN  /\ AllowanceCovers(1) =>
             withdraw.estimatedGasCrypto = fee /\ step = "Confirm"
        /\ ~AllowanceCovers(1) =>
             approve.estimatedGasCrypto = fee /\ step = "Approve"

\* A gas limit of 0 under a non-zero gas price: the fee "0" is in the
\* approve payload and the wizard is on the Approve step.
C14_Witness ==
  /\ pc[1] = "done" /\ EstimateSucceeded(1)
  /\ gasLimitCall[1].v = 0 /\ gasPriceCall[1].v > 0
  /\ approve.estimatedGasCrypto = "0" /\ step = "Approve"

\* The i-th effect of invocation f dispatches a fee with action `type`.
IsFeeDispatch(f, i, type) ==
  /\ effects[f][i].op = "dispatch"
  /\ effects[f][i].name = type
  /\ "estimatedGasCrypto" \in DOMAIN effects[f][i].arg

\* The i-th effect of invocation f dispatches SET_LOADING with `payload`.
IsLoadingDispatch(f, i, payload) ==
  effects[f][i] = Dispatch("SET_LOADING", payload)

\* C15: in the program order of an invocation, onNext(Confirm) is preceded
\* by a SET_WITHDRAW carrying the fee and onNext(Approve) by a SET_APPROVE
\* carrying the fee; onNext comes after SET_LOADING true and before every
\* SET_LOADING false, which follows it. An invocation that called
\* onNext(Confirm) dispatched no SET_APPROVE, and one that called
\* onNext(Approve) dispatched no fee with SET_WITHDRAW.
C15_FeeBeforeStep ==
  \A i \in DOMAIN effects[1] :
    LET e == effects[1][i]
        type == IF e.name = "Confirm" THEN "SET_WITHDRAW" ELSE "SET_APPROVE"
        other == IF e.name = "Confirm" THEN "SET_APPROVE" ELSE "SET_WITHDRAW"
    IN  e.op = "onNext" =>
          /\ e.name \in {"Confirm", "Approve"}
          /\ \E j \in 1..(i - 1) : IsFeeDispatch(1, j, type)
          /\ \E j \in 1..(i - 1) : IsLoadingDispatch(1, j, TRUE)
          /\ \A j \in 1..(i - 1) : ~IsLoadingDispatch(1, j, FALSE)
          /\ \E j \in (i + 1)..Len(effects[1]) : IsLoadingDispatch(1, j, FALSE)
          /\ \A j \in DOMAIN effects[1] : ~IsFeeDispatch(1, j, other)
          /\ e.name = "Confirm" =>
               /\ \A j \in DOMAIN effects[1] : effects[1][j].name # "SET_APPROVE"
               /\ approve.estimatedGasCrypto = ""
          /\ e.name = "Approve" => withdraw.estimatedGasCrypto = ""

\* An invocation that went to Approve: the fee is in the approve payload
\* alone and loading is cleared.
C15_Witness ==
  /\ OnNextCalls(1) = <<"Approve">> /\ ~loading
  /\ approve.estimatedGasCrypto # "" /\ withdraw.estimatedGasCrypto = ""
  /\ IsFeeDispatch(1, Len(effects[1]) - 2, "SET_APPROVE")

\* C17: an invocation shows at most one notification: none as long as no
\* ChainApi call of it has rejected (success and guard no-op included),
\* exactly one from the catch of handleContinue when allowance rejected,
\* and exactly one from the catch of the estimate helper when the gas limit
\* or the gas price or both rejected, the catch of handleContinue staying
\* silent.
C17_OneNotification ==
  /\ Len(Toasts(1)) <= 1
  /\ ~FailedCall(1) => Toasts(1) = <<>> /\ Logs(1) = <<>>
  /\ allowanceCall[1].st = "rejected" =>
       Len(Toasts(1)) = 1 /\ Logs(1) = <<"handleContinue">>
  /\ (gasLimitCall[1].st = "rejected" \/ gasPriceCall[1].st = "rejected") =>
       /\ Len(Toasts(1)) = 1
       /\ \/ Logs(1) = <<"getWithdrawGasEstimate">>
          \/ Logs(1) = <<"getApproveEstimate">>

\* The gas limit and the gas price have both rejected: one notification.
C17_Witness ==
  /\ gasLimitCall[1].st = "rejected" /\ gasPriceCall[1].st = "rejected"
  /\ Len(Toasts(1)) = 1 /\ pc[1] = "done"

\* This step is the entry of invocation f past the guard.
Enters(f) == pc[f] = "idle" /\ pc'[f] # "idle" /\ PreconditionsMet

\* This step is the successful end of invocation f.
Succeeds(f) == pc[f] # "done" /\ pc'[f] = "done" /\ EstimateSucceeded(f)'

\* What a successful end of invocation f leaves behind: loading false, the
\* step of its route and its fee in the payload of its route.
FeeAndStepOverwritten(f) ==
  LET fee == ToString(gasPriceCall'[f].v * gasLimitCall'[f].v)
  IN  /\ ~loading'
      /\ AllowanceCovers(f) =>
           step' = "Confirm" /\ withdraw'.estimatedGasCrypto = fee
      /\ ~AllowanceCovers(f) =>
           step' = "Approve" /\ approve'.estimatedGasCrypto = fee

\* This step is the successful end of invocation f, another invocation
\* having ended with success before it.
SucceedsLater(f) ==
  /\ Succeeds(f)
  /\ \E g \in Flows \ {f} : pc[g] = "done" /\ OnNextCalls(g) # <<>>

\* C16 as claimed: an invocation entered past the guard runs whatever the
\* loading flag is; an invocation that ends with success, whatever other
\* invocation is in flight, clears loading and leaves its step and its fee
\* in the wizard state; and the one that ends later leaves its submitted
\* payload there as well.
C16_LaterFlowOverwrites ==
  [][\A f \in Flows :
       /\ Enters(f) => pc'[f] = "allowance" /\ loading'
       /\ Succeeds(f) => FeeAndStepOverwritten(f)
       /\ SucceedsLater(f) =>
            /\ withdraw'.cryptoAmount = formValues[f].cryptoAmount
            /\ withdraw'.withdrawType = formValues[f].withdrawType
    ]_vars

\* C16 amended: an invocation entered past the guard runs whatever the
\* loading flag is and writes its submitted payload; an invocation that ends
\* with success, whatever other invocation is in flight, clears loading and
\* leaves its step and its fee in the wizard state; the submitted payload in
\* the wizard state changes at an entry only, so it is the one of the
\* invocation entered last.
C16_LaterFeeOverwrites ==
  [][/\ \A f \in Flows :
         /\ Enters(f) =>
              /\ pc'[f] = "allowance" /\ loading'
              /\ withdraw'.cryptoAmount = formValues'[f].cryptoAmount
              /\ withdraw'.withdrawType = formValues'[f].withdrawType
         /\ Succeeds(f) => FeeAndStepOverwritten(f)
     /\ (\A f \in Flows : ~Enters(f)) =>
         /\ withdraw'.cryptoAmount = withdraw.cryptoAmount
         /\ withdraw'.withdrawType = withdraw.withdrawType
    ]_vars

\* The first invocation has ended on Confirm and cleared loading while the
\* second, entered meanwhile with another amount, is estimating for
\* Approve: the withdraw payload holds the amount of the second and the fee
\* of the first.
C16_Witness ==
  /\ ~loading /\ pc[1] = "done" /\ OnNextCalls(1) = <<"Confirm">>
  /\ pc[2] = "approveEstimate"
  /\ formValues[1].cryptoAmount # formValues[2].cryptoAmount
  /\ withdraw.cryptoAmount = formValues[2].cryptoAmount
  /\ withdraw.estimatedGasCrypto
       = ToString(gasPriceCall[1].v * gasLimitCall[1].v)

C19_PercentAmountsAccepted ==
  lastOp.op = "handlePercentClick" =>
    /\ validation.cryptoAmount =
         (IF fields.cryptoAmount.nan \/ fields.cryptoAmount.m = 0
          THEN "" ELSE True)
    /\ validation.fiatAmount =
         (IF fields.fiatAmount.nan \/ fields.fiatAmount.m = 0
          THEN "" ELSE True)

\* A click on 1: the whole of a fractional balance, under a fractional
\* price, both found valid.
C19_Witness ==
  /\ lastOp = [op |-> "handlePercentClick", arg |-> Dec(1, 0)]
  /\ precision > 0 /\ ~price.nan /\ price.e > 0 /\ price.m > 0
  /\ fields.cryptoAmount.m = RawBalance /\ fields.cryptoAmount.e = precision
  /\ validation.cryptoAmount = True /\ validation.fiatAmount = True

====
